---------------------------- MODULE Spec2Model ----------------------------
(***************************************************************************)
(* A model of the Rotary Global Grant calculator                           *)
(* (src/global_grant_calculator.py).                                       *)
(*                                                                         *)
(* Money is a Python float: st.number_input(min_value=0.0, format="%.2f")  *)
(* returns one, and calculate_totals adds, multiplies and divides floats.  *)
(* The arithmetic is modelled bit for bit: a float is an IEEE-754 binary64 *)
(* value, every operation rounds to nearest, ties to even.                 *)
(*                                                                         *)
(*   A float is a record [m |-> mantissa, e |-> exponent] of value         *)
(*   m * 2^e.  The mantissa is a natural number of exactly MantissaBits    *)
(*   bits, or 0 (then e = 0).  The form only yields values >= 0 (every     *)
(*   number_input has min_value=0.0), so floats carry no sign.  Amounts    *)
(*   are bounded, so no exponent leaves the normal range.                  *)
(*                                                                         *)
(*   A natural number of more than 31 bits is a sequence of limbs, least   *)
(*   significant first, each in 0 .. Base-1, the last one not 0; the empty *)
(*   sequence is 0.                                                        *)
(*                                                                         *)
(* Text (a name, a warning) is the sequence of its characters' code points.*)
(***************************************************************************)
EXTENDS Integers, Sequences, FiniteSets, TLC

\* ------------------------------------------------------------------------
\* Natural numbers as limb sequences
\* ------------------------------------------------------------------------

LimbBits == 15
Base == 2^LimbBits

RECURSIVE BFromInt(_)
BFromInt(n) == IF n = 0 THEN <<>> ELSE <<n % Base>> \o BFromInt(n \div Base)

RECURSIVE BNorm(_)
BNorm(a) == IF a = <<>> THEN <<>>
            ELSE IF a[Len(a)] = 0 THEN BNorm(SubSeq(a, 1, Len(a) - 1))
            ELSE a

BRest(a) == IF a = <<>> THEN <<>> ELSE Tail(a)
BLow(a) == IF a = <<>> THEN 0 ELSE Head(a)

RECURSIVE BAddC(_, _, _)
BAddC(a, b, c) ==
    IF a = <<>> /\ b = <<>> THEN (IF c = 0 THEN <<>> ELSE <<c>>)
    ELSE LET x == BLow(a) + BLow(b) + c
         IN  <<x % Base>> \o BAddC(BRest(a), BRest(b), x \div Base)

BAdd(a, b) == BAddC(a, b, 0)

\* a - b for a >= b
RECURSIVE BSubC(_, _, _)
BSubC(a, b, c) ==
    IF a = <<>> THEN <<>>
    ELSE LET x == BLow(a) - BLow(b) - c
         IN  <<x % Base>> \o BSubC(BRest(a), BRest(b), IF x < 0 THEN 1 ELSE 0)

BSub(a, b) == BNorm(BSubC(a, b, 0))

\* a < b
RECURSIVE BLessFrom(_, _, _)
BLessFrom(a, b, i) ==
    IF i = 0 THEN FALSE
    ELSE IF a[i] # b[i] THEN a[i] < b[i]
    ELSE BLessFrom(a, b, i - 1)

BLess(a, b) == IF Len(a) # Len(b) THEN Len(a) < Len(b)
               ELSE BLessFrom(a, b, Len(a))

\* a * d + c for one limb d
RECURSIVE BMulLimbC(_, _, _)
BMulLimbC(a, d, c) ==
    IF a = <<>> THEN (IF c = 0 THEN <<>> ELSE <<c>>)
    ELSE LET x == Head(a) * d + c
         IN  <<x % Base>> \o BMulLimbC(Tail(a), d, x \div Base)

BMulLimb(a, d) == IF d = 0 THEN <<>> ELSE BMulLimbC(a, d, 0)

BShiftLimb(a) == IF a = <<>> THEN <<>> ELSE <<0>> \o a

RECURSIVE BMul(_, _)
BMul(a, b) ==
    IF b = <<>> THEN <<>>
    ELSE BAdd(BMulLimb(a, Head(b)), BShiftLimb(BMul(a, Tail(b))))

RECURSIVE BitLenInt(_)
BitLenInt(n) == IF n = 0 THEN 0 ELSE 1 + BitLenInt(n \div 2)

BitLen(a) == IF a = <<>> THEN 0
             ELSE LimbBits * (Len(a) - 1) + BitLenInt(a[Len(a)])

\* a * 2^s
BShl(a, s) ==
    IF a = <<>> THEN <<>>
    ELSE [i \in 1 .. (s \div LimbBits) |-> 0] \o BMulLimb(a, 2^(s % LimbBits))

\* a \div 2^s
BShr(a, s) ==
    LET q == s \div LimbBits
        r == s % LimbBits
        x == IF q >= Len(a) THEN <<>> ELSE SubSeq(a, q + 1, Len(a))
    IN  BNorm([i \in 1 .. Len(x) |->
                  (x[i] \div 2^r)
                  + (IF i < Len(x) THEN (x[i + 1] % 2^r) * 2^(LimbBits - r) ELSE 0)])

\* bit i of a, bit 0 the least significant
BBit(a, i) ==
    LET k == (i \div LimbBits) + 1
    IN  IF k > Len(a) THEN 0 ELSE (a[k] \div 2^(i % LimbBits)) % 2

\* the s low bits of a are all 0
BLowZero(a, s) ==
    /\ \A i \in 1 .. (s \div LimbBits) : i > Len(a) \/ a[i] = 0
    /\ \/ (s \div LimbBits) + 1 > Len(a)
       \/ a[(s \div LimbBits) + 1] % 2^(s % LimbBits) = 0

\* ------------------------------------------------------------------------
\* Python floats (IEEE-754 binary64), values >= 0
\* ------------------------------------------------------------------------

MantissaBits == 53

FZero == [m |-> <<>>, e |-> 0]

\* The float nearest to n * 2^e, or to a value just above it when sticky;
\* ties go to the even mantissa.
FRound(n, e, sticky) ==
    LET L == BitLen(n)
    IN  IF L = 0 THEN FZero
        ELSE IF L <= MantissaBits
        THEN [m |-> BShl(n, MantissaBits - L), e |-> e - (MantissaBits - L)]
        ELSE LET d == L - MantissaBits
                 q == BShr(n, d)
                 up == /\ BBit(n, d - 1) = 1
                       /\ \/ sticky
                          \/ ~BLowZero(n, d - 1)
                          \/ BBit(q, 0) = 1
                 q2 == IF up THEN BAdd(q, <<1>>) ELSE q
             IN  IF BitLen(q2) > MantissaBits
                 THEN [m |-> BShr(q2, 1), e |-> e + d + 1]
                 ELSE [m |-> q2, e |-> e + d]

\* int -> float
FInt(n) == FRound(BFromInt(n), 0, FALSE)

\* a + b
fadd(a, b) ==
    IF a.m = <<>> THEN b
    ELSE IF b.m = <<>> THEN a
    ELSE LET lo == IF a.e < b.e THEN a.e ELSE b.e
         IN  FRound(BAdd(BShl(a.m, a.e - lo), BShl(b.m, b.e - lo)), lo, FALSE)

\* a * b
fmul(a, b) ==
    IF a.m = <<>> \/ b.m = <<>> THEN FZero
    ELSE FRound(BMul(a.m, b.m), a.e + b.e, FALSE)

\* a as an integer, for a < 2^30
BToInt(a) == IF a = <<>> THEN 0
             ELSE IF Len(a) = 1 THEN a[1]
             ELSE a[1] + Base * a[2]

\* <<digit, remainder>> made exact: the digit was estimated too low
RECURSIVE BDivFix(_, _)
BDivFix(qr, d) ==
    IF BLess(qr[2], d) THEN qr
    ELSE BDivFix(<<qr[1] + 1, BSub(qr[2], d)>>, d)

DigitBits == LimbBits - 1

\* Long division, one quotient digit of DigitBits bits a step:
\* <<quotient, remainder>> of (r * 2^(k * DigitBits)) by d, given
\* qr = <<the quotient so far, r>>, for r < d and d of MantissaBits bits.
\* The digit is estimated from the leading bits of r and d, then corrected.
RECURSIVE BDivSteps(_, _, _)
BDivSteps(qr, d, k) ==
    IF k = 0 THEN qr
    ELSE LET r == qr[2]
             est == BToInt(BShr(r, MantissaBits - 2 * LimbBits))
                      \div (BToInt(BShr(d, MantissaBits - LimbBits - 1)) + 1)
             fix == BDivFix(<<est, BSub(BShl(r, DigitBits), BMulLimb(d, est))>>, d)
         IN  BDivSteps(<<BAdd(BShl(qr[1], DigitBits), BFromInt(fix[1])), fix[2]>>,
                       d, k - 1)

\* a / b, b # 0
fdiv(a, b) ==
    IF a.m = <<>> THEN FZero
    ELSE LET k == 4
             qr == IF BLess(a.m, b.m)
                   THEN BDivSteps(<<<<>>, a.m>>, b.m, k)
                   ELSE BDivSteps(<<<<1>>, BSub(a.m, b.m)>>, b.m, k)
         IN  FRound(qr[1], a.e - b.e - k * DigitBits, qr[2] # <<>>)

\* a < b
flt(a, b) ==
    IF b.m = <<>> THEN FALSE
    ELSE IF a.m = <<>> THEN TRUE
    ELSE IF a.e # b.e THEN a.e < b.e
    ELSE BLess(a.m, b.m)

\* min(a, b): Python's min keeps its first argument unless a later one is smaller
fmin(a, b) == IF flt(b, a) THEN b ELSE a

\* The float a two-decimal amount of c cents parses to (c / 100 rounded once).
Cents(c) == fdiv(FInt(c), FInt(100))

\* ------------------------------------------------------------------------
\* Text
\* ------------------------------------------------------------------------

\* sub in s
Contains(s, sub) ==
    \E i \in 0 .. (Len(s) - Len(sub)) : SubSeq(s, i + 1, i + Len(sub)) = sub

\* s.lower(), for ASCII text
lower(s) == [i \in 1 .. Len(s) |-> IF s[i] >= 65 /\ s[i] <= 90 THEN s[i] + 32 ELSE s[i]]

\* "foundation"
FOUNDATION ==
    <<102, 111, 117, 110, 100, 97, 116, 105, 111, 110>>

\* "corporation"
CORPORATION ==
    <<99, 111, 114, 112, 111, 114, 97, 116, 105, 111, 110>>

\* "International partner contributions must be at least 15% of the total."
INTERNATIONAL_SHARE_WARNING ==
    <<73, 110, 116, 101, 114, 110, 97, 116, 105, 111, 110, 97, 108, 32,
      112, 97, 114, 116, 110, 101, 114, 32, 99, 111, 110, 116, 114, 105,
      98, 117, 116, 105, 111, 110, 115, 32, 109, 117, 115, 116, 32, 98,
      101, 32, 97, 116, 32, 108, 101, 97, 115, 116, 32, 49, 53, 37, 32,
      111, 102, 32, 116, 104, 101, 32, 116, 111, 116, 97, 108, 46>>

\* "Total funding must be at least $30,000."
MINIMUM_FUNDING_WARNING ==
    <<84, 111, 116, 97, 108, 32, 102, 117, 110, 100, 105, 110, 103, 32,
      109, 117, 115, 116, 32, 98, 101, 32, 97, 116, 32, 108, 101, 97, 115,
      116, 32, 36, 51, 48, 44, 48, 48, 48, 46>>

\* "Non-Rotarian contribution from "
DONOR_WARNING_PREFIX ==
    <<78, 111, 110, 45, 82, 111, 116, 97, 114, 105, 97, 110, 32, 99, 111,
      110, 116, 114, 105, 98, 117, 116, 105, 111, 110, 32, 102, 114, 111,
      109, 32>>

\* " may not be eligible. Please ensure it's not from a cooperating organization or a beneficiary of the project."
DONOR_WARNING_SUFFIX ==
    <<32, 109, 97, 121, 32, 110, 111, 116, 32, 98, 101, 32, 101, 108, 105,
      103, 105, 98, 108, 101, 46, 32, 80, 108, 101, 97, 115, 101, 32, 101,
      110, 115, 117, 114, 101, 32, 105, 116, 39, 115, 32, 110, 111, 116,
      32, 102, 114, 111, 109, 32, 97, 32, 99, 111, 111, 112, 101, 114, 97,
      116, 105, 110, 103, 32, 111, 114, 103, 97, 110, 105, 122, 97, 116,
      105, 111, 110, 32, 111, 114, 32, 97, 32, 98, 101, 110, 101, 102, 105,
      99, 105, 97, 114, 121, 32, 111, 102, 32, 116, 104, 101, 32, 112, 114,
      111, 106, 101, 99, 116, 46>>

\* ------------------------------------------------------------------------
\* calculate_totals, validate_funding, validate_other_donors
\* ------------------------------------------------------------------------

FEE_RATE == Cents(5)                    \* 0.05
WORLD_FUND_RATE == Cents(80)            \* 0.8
WORLD_FUND_MAX == FInt(400000)
MIN_INTERNATIONAL_SHARE == Cents(15)    \* 0.15
MIN_TOTAL_FUNDING == FInt(30000)

\* acc + xs[1][key] + xs[2][key] + ..., added left to right
RECURSIVE sum_from(_, _, _)
sum_from(acc, xs, key) ==
    IF xs = <<>> THEN acc
    ELSE sum_from(fadd(acc, Head(xs)[key]), Tail(xs), key)

\* sum(x[key] for x in xs): starts from 0 and adds in list order (the
\* float accumulation of CPython before 3.12)
sum(xs, key) == sum_from(FZero, xs, key)

\* world_fund_match_of without the cap
world_fund_match_uncapped(total_ddf) == fmul(total_ddf, WORLD_FUND_RATE)

\* world_fund_match_of with max for min
world_fund_match_max(total_ddf) ==
    IF flt(fmul(total_ddf, WORLD_FUND_RATE), WORLD_FUND_MAX)
    THEN WORLD_FUND_MAX
    ELSE fmul(total_ddf, WORLD_FUND_RATE)

world_fund_match_of(total_ddf) == fmin(fmul(total_ddf, WORLD_FUND_RATE), WORLD_FUND_MAX)

\* fee_of with a rate of 0.5
fee_of_half(total_cash_trf) == fmul(total_cash_trf, Cents(50))

fee_of(total_cash_trf) == fmul(total_cash_trf, FEE_RATE)

\* total_funding_of with the fee taken off the cash through TRF
total_funding_net_of_fee(total_ddf, total_cash_direct, project_cash_trf, world_fund_match, total_other_donors_direct, total_other_donors_trf, endowed_gift) ==
    fadd(fadd(fadd(fadd(fadd(fadd(total_ddf, total_cash_direct),
                             fmul(project_cash_trf, Cents(95))),
                        world_fund_match),
                   total_other_donors_direct),
              total_other_donors_trf),
         endowed_gift)

\* total_funding_of without the World Fund match
total_funding_without_match(total_ddf, total_cash_direct, project_cash_trf, world_fund_match, total_other_donors_direct, total_other_donors_trf, endowed_gift) ==
    fadd(fadd(fadd(fadd(fadd(total_ddf, total_cash_direct), project_cash_trf),
                   total_other_donors_direct),
              total_other_donors_trf),
         endowed_gift)

total_funding_of(total_ddf, total_cash_direct, project_cash_trf, world_fund_match, total_other_donors_direct, total_other_donors_trf, endowed_gift) ==
    fadd(fadd(fadd(fadd(fadd(fadd(total_ddf, total_cash_direct), project_cash_trf),
                        world_fund_match),
                   total_other_donors_direct),
              total_other_donors_trf),
         endowed_gift)

\* international_contribution_percentage_of counting the DDF only
international_ddf_percentage_of(total_international_ddf, total_international_cash_direct, total_international_cash_trf, total_contributions) ==
    IF flt(FZero, total_contributions)
    THEN fdiv(total_international_ddf, total_contributions)
    ELSE FZero

international_contribution_percentage_of(total_international_ddf, total_international_cash_direct, total_international_cash_trf, total_contributions) ==
    IF flt(FZero, total_contributions)
    THEN fdiv(fadd(fadd(total_international_ddf, total_international_cash_direct),
                   total_international_cash_trf),
              total_contributions)
    ELSE FZero

calculate_totals(host_clubs, international_clubs, other_donors, endowed_gift) ==
    LET total_host_ddf == sum(host_clubs, "ddf")
        total_host_cash_direct == sum(host_clubs, "cash_direct")
        total_host_cash_trf == sum(host_clubs, "cash_trf")
        total_international_ddf == sum(international_clubs, "ddf")
        total_international_cash_direct == sum(international_clubs, "cash_direct")
        total_international_cash_trf == sum(international_clubs, "cash_trf")
        total_ddf == fadd(total_host_ddf, total_international_ddf)
        total_cash_direct == fadd(total_host_cash_direct, total_international_cash_direct)
        total_cash_trf == fadd(total_host_cash_trf, total_international_cash_trf)
        fee == fee_of(total_cash_trf)
        project_cash_trf == total_cash_trf
        world_fund_match == world_fund_match_of(total_ddf)
        total_other_donors_direct == sum(other_donors, "amount_direct")
        total_other_donors_trf == sum(other_donors, "amount_trf")
        total_funding ==
            total_funding_of(total_ddf, total_cash_direct, project_cash_trf,
                             world_fund_match, total_other_donors_direct,
                             total_other_donors_trf, endowed_gift)
        total_contributions == fadd(fadd(total_ddf, total_cash_direct), total_cash_trf)
        international_contribution_percentage ==
            international_contribution_percentage_of(
                total_international_ddf, total_international_cash_direct,
                total_international_cash_trf, total_contributions)
    IN  [total_host_ddf |-> total_host_ddf,
         total_host_cash_direct |-> total_host_cash_direct,
         total_host_cash_trf |-> total_host_cash_trf,
         total_international_ddf |-> total_international_ddf,
         total_international_cash_direct |-> total_international_cash_direct,
         total_international_cash_trf |-> total_international_cash_trf,
         total_ddf |-> total_ddf,
         total_cash_direct |-> total_cash_direct,
         total_cash_trf |-> total_cash_trf,
         project_cash_trf |-> project_cash_trf,
         fee |-> fee,
         world_fund_match |-> world_fund_match,
         total_other_donors_direct |-> total_other_donors_direct,
         total_other_donors_trf |-> total_other_donors_trf,
         endowed_gift |-> endowed_gift,
         total_funding |-> total_funding,
         international_contribution_percentage |-> international_contribution_percentage,
         total_contributions |-> total_contributions]

international_share_too_low(results) ==
    flt(results.international_contribution_percentage, MIN_INTERNATIONAL_SHARE)

total_funding_below_minimum(results) ==
    flt(results.total_funding, MIN_TOTAL_FUNDING)

\* validate_funding with its two checks in the other order
validate_funding_minimum_first(results) ==
    (IF flt(results.total_funding, MIN_TOTAL_FUNDING)
     THEN <<MINIMUM_FUNDING_WARNING>> ELSE <<>>)
    \o (IF flt(results.international_contribution_percentage, MIN_INTERNATIONAL_SHARE)
        THEN <<INTERNATIONAL_SHARE_WARNING>> ELSE <<>>)

validate_funding(results) ==
    (IF international_share_too_low(results) THEN <<INTERNATIONAL_SHARE_WARNING>> ELSE <<>>)
    \o (IF total_funding_below_minimum(results) THEN <<MINIMUM_FUNDING_WARNING>> ELSE <<>>)

\* donor_is_flagged without .lower()
donor_is_flagged_case_sensitive(donor) ==
    \/ Contains(donor.name, FOUNDATION)
    \/ Contains(donor.name, CORPORATION)

donor_is_flagged(donor) ==
    \/ Contains(lower(donor.name), FOUNDATION)
    \/ Contains(lower(donor.name), CORPORATION)

donor_warning(donor) == DONOR_WARNING_PREFIX \o donor.name \o DONOR_WARNING_SUFFIX

RECURSIVE validate_other_donors(_)
validate_other_donors(other_donors) ==
    IF other_donors = <<>> THEN <<>>
    ELSE (IF donor_is_flagged(Head(other_donors))
          THEN <<donor_warning(Head(other_donors))>> ELSE <<>>)
         \o validate_other_donors(Tail(other_donors))

\* ------------------------------------------------------------------------
\* generate_pdf and the form of main
\* ------------------------------------------------------------------------

\* "Please enter both Application # and Project Country."
ERROR_MISSING_DETAILS ==
    <<80, 108, 101, 97, 115, 101, 32, 101, 110, 116, 101, 114, 32, 98, 111,
      116, 104, 32, 65, 112, 112, 108, 105, 99, 97, 116, 105, 111, 110, 32,
      35, 32, 97, 110, 100, 32, 80, 114, 111, 106, 101, 99, 116, 32, 67,
      111, 117, 110, 116, 114, 121, 46>>

\* "Please enter at least one Host or International Rotary Club/District."
ERROR_NO_CLUB ==
    <<80, 108, 101, 97, 115, 101, 32, 101, 110, 116, 101, 114, 32, 97, 116,
      32, 108, 101, 97, 115, 116, 32, 111, 110, 101, 32, 72, 111, 115, 116,
      32, 111, 114, 32, 73, 110, 116, 101, 114, 110, 97, 116, 105, 111,
      110, 97, 108, 32, 82, 111, 116, 97, 114, 121, 32, 67, 108, 117, 98,
      47, 68, 105, 115, 116, 114, 105, 99, 116, 46>>

HUNDRED == FInt(100)

ZeroDivisionError == [raised |-> "ZeroDivisionError"]

\* generate_pdf giving up when there is a warning
generate_pdf_refusing_warnings(data, project_details) ==
    IF data.warnings # <<>> \/ data.total_funding = FZero THEN ZeroDivisionError
    ELSE [application_number |-> project_details.application_number,
          project_country |-> project_details.project_country,
          warnings |-> data.warnings,
          percentages |-> <<>>]

\* The report: the heading, the warnings and the funding breakdown's
\* percentages (before they are formatted).  The tables that only copy
\* their input are left out.  A division by a total_funding of 0 raises.
generate_pdf(data, project_details) ==
    IF data.total_funding = FZero THEN ZeroDivisionError
    ELSE [application_number |-> project_details.application_number,
          project_country |-> project_details.project_country,
          warnings |-> data.warnings,
          percentages |->
            << fmul(fdiv(fadd(fadd(data.total_host_ddf, data.total_host_cash_direct),
                              data.total_host_cash_trf),
                         data.total_funding), HUNDRED),
               fmul(data.international_contribution_percentage, HUNDRED),
               fmul(fdiv(data.world_fund_match, data.total_funding), HUNDRED),
               fmul(fdiv(fadd(data.total_other_donors_direct,
                              data.total_other_donors_trf),
                         data.total_funding), HUNDRED),
               fmul(fdiv(data.endowed_gift, data.total_funding), HUNDRED) >>]

\* generate_pie_chart: the sizes of the five slices
pie_chart_sizes(data) ==
    << fadd(fadd(data.total_host_ddf, data.total_host_cash_direct),
            data.total_host_cash_trf),
       fadd(fadd(data.total_international_ddf, data.total_international_cash_direct),
            data.total_international_cash_trf),
       data.world_fund_match,
       fadd(data.total_other_donors_direct, data.total_other_donors_trf),
       data.endowed_gift >>

\* The on-screen summary table (amounts before they are formatted)
summary_data(results) ==
    << fadd(fadd(results.total_host_ddf, results.total_host_cash_direct),
            results.total_host_cash_trf),
       fadd(fadd(results.total_international_ddf,
                 results.total_international_cash_direct),
            results.total_international_cash_trf),
       fadd(fadd(results.total_ddf, results.total_cash_direct), results.total_cash_trf),
       results.world_fund_match,
       fadd(results.total_other_donors_direct, results.total_other_donors_trf),
       results.endowed_gift,
       results.total_funding >>

\* club_row_included asking for a name only
club_row_included_by_name(row) == row.name # <<>>

\* if name and (ddf > 0 or cash_direct > 0 or cash_trf > 0)
club_row_included(row) ==
    /\ row.name # <<>>
    /\ \/ flt(FZero, row.ddf)
       \/ flt(FZero, row.cash_direct)
       \/ flt(FZero, row.cash_trf)

\* if name and (amount_direct > 0 or amount_trf > 0)
donor_row_included(row) ==
    /\ row.name # <<>>
    /\ \/ flt(FZero, row.amount_direct)
       \/ flt(FZero, row.amount_trf)

included_clubs(rows) == SelectSeq(rows, club_row_included)

included_donors(rows) == SelectSeq(rows, donor_row_included)

\* details_missing with "and" for "or"
details_both_missing(application_number, project_country) ==
    application_number = <<>> /\ project_country = <<>>

\* if not application_number or not project_country
details_missing(application_number, project_country) ==
    application_number = <<>> \/ project_country = <<>>

\* elif not host_clubs and not international_clubs
no_club(host_clubs, international_clubs) ==
    host_clubs = <<>> /\ international_clubs = <<>>

\* "Please enter an Application # before saving."
ERROR_SAVE_WITHOUT_APPLICATION_NUMBER ==
    <<80, 108, 101, 97, 115, 101, 32, 101, 110, 116, 101, 114, 32, 97, 110,
      32, 65, 112, 112, 108, 105, 99, 97, 116, 105, 111, 110, 32, 35, 32,
      98, 101, 102, 111, 114, 101, 32, 115, 97, 118, 105, 110, 103, 46>>

\* ".json"
JSON_SUFFIX == <<46, 106, 115, 111, 110>>

\* The name of the file "Save Project Data" writes
project_file_name(application_number) == application_number \o JSON_SUFFIX

\* The files after open(filename, 'w') and json.dump(data, f): the file of
\* that name holds the data, whatever it held before
save_project_data(files, data, filename) ==
    [name \in DOMAIN files \cup {filename} |->
        IF name = filename THEN data ELSE files[name]]

\* What "Save Project Data" writes, and what an uploaded file holds (the
\* gift's name and number, free text that nothing reads, are left out)
project_data_of(application_number, project_country, host_clubs, international_clubs, other_donors, endowed_gift_amount) ==
    [application_number |-> application_number,
     project_country |-> project_country,
     host_clubs |-> host_clubs,
     international_clubs |-> international_clubs,
     other_donors |-> other_donors,
     endowed_gift_amount |-> endowed_gift_amount]

\* ------------------------------------------------------------------------
\* State
\* ------------------------------------------------------------------------

VARIABLES
    host_club_count,        \* st.session_state
    international_club_count,
    other_donor_count,
    application_number,     \* the widgets' values
    project_country,
    host_rows,
    international_rows,
    other_rows,
    endowed_gift_amount,
    host_clubs,             \* main: the records passed to calculate_totals
    international_clubs,
    other_donors,
    results,                \* what calculate_totals returned, or NoResults
    funding_warnings,       \* what validate_funding returned
    donor_warnings,         \* what validate_other_donors returned
    error,                  \* the st.error of the last run, or NoError
    pdf,                    \* what generate_pdf returned, or NoPdf
    summary,                \* the summary table shown, or NoSummary
    written_files,          \* the files save_project_data wrote in the run, by
                            \* name (they stay on the server's disk, which
                            \* nothing reads: the uploader takes the user's
                            \* file, load_project_data is never called)
    uploaded_file,          \* the file st.file_uploader holds and returns in
                            \* every run until the user takes it out, or
                            \* NoUpload
    pc                      \* the form, by how the last run ended: "form",
                            \* "error", "report", "exception", "saved",
                            \* "save_error", "load_exception";
                            \* the calculation on its own: "input",
                            \* "calculated", "validated"

form_vars == <<host_club_count, international_club_count, other_donor_count,
               application_number, project_country, host_rows,
               international_rows, other_rows, uploaded_file>>

report_vars == <<error, pdf, summary, written_files>>

vars == <<host_club_count, international_club_count, other_donor_count,
          application_number, project_country, host_rows, international_rows,
          other_rows, endowed_gift_amount, host_clubs, international_clubs,
          other_donors, results, funding_warnings, donor_warnings, error, pdf,
          summary, written_files, uploaded_file, pc>>

NoResults == [none |-> TRUE]
NoError == <<>>
NoPdf == [none |-> TRUE]
NoSummary == <<>>
NoFiles == <<>>
NoUpload == [none |-> TRUE]

BlankClubRow == [name |-> <<>>, ddf |-> FZero, cash_direct |-> FZero, cash_trf |-> FZero]
BlankDonorRow == [name |-> <<>>, amount_direct |-> FZero, amount_trf |-> FZero]

\* The form as main first draws it: one blank row a section, no file in
\* the uploader
FormInit ==
    /\ host_club_count = 1
    /\ international_club_count = 1
    /\ other_donor_count = 1
    /\ application_number = <<>>
    /\ project_country = <<>>
    /\ host_rows = <<BlankClubRow>>
    /\ international_rows = <<BlankClubRow>>
    /\ other_rows = <<BlankDonorRow>>
    /\ uploaded_file = NoUpload

NoReport ==
    /\ error = NoError
    /\ pdf = NoPdf
    /\ summary = NoSummary
    /\ written_files = NoFiles

Club(name, ddf, cash_direct, cash_trf) ==
    [name |-> name, ddf |-> Cents(ddf), cash_direct |-> Cents(cash_direct),
     cash_trf |-> Cents(cash_trf)]

Donor(name, amount_direct, amount_trf) ==
    [name |-> name, amount_direct |-> Cents(amount_direct),
     amount_trf |-> Cents(amount_trf)]

NAME_HOST_CLUB == <<72, 111, 115, 116, 32, 67, 108, 117, 98>>
NAME_DISTRICT == <<68, 105, 115, 116, 114, 105, 99, 116, 32, 53, 48, 48, 48>>
NAME_PARTNER_CLUB == <<80, 97, 114, 116, 110, 101, 114, 32, 67, 108, 117, 98>>
NAME_ACME_FOUNDATION == <<65, 99, 109, 101, 32, 70, 111, 117, 110, 100, 97, 116, 105, 111, 110>>
NAME_ACME_CORPORATION_UPPER == <<65, 67, 77, 69, 32, 67, 79, 82, 80, 79, 82, 65, 84, 73, 79, 78>>
NAME_ACME_ROTARY_CLUB == <<65, 99, 109, 101, 32, 82, 111, 116, 97, 114, 121, 32, 67, 108, 117, 98>>
NAME_FOUNDATION_CORPORATION == <<70, 111, 117, 110, 100, 97, 116, 105, 111, 110, 32, 67, 111, 114, 112, 111, 114, 97, 116, 105, 111, 110>>
NAME_FOUND_CORP == <<70, 111, 117, 110, 100, 32, 67, 111, 114, 112>>
TEXT_GG2024 == <<71, 71, 50, 48, 50, 52>>
TEXT_KENYA == <<75, 101, 110, 121, 97>>

\* The sequences over S of length at most n
SeqUpTo(S, n) == UNION { [1 .. k -> S] : k \in 0 .. n }

\* ------------------------------------------------------------------------
\* The calculation on its own: calculate_totals and the validators applied
\* to argument lists drawn from bounded pools.  Amounts are written in
\* cents: 1000000 is 10000.00.
\* ------------------------------------------------------------------------

MaxHostClubs == 3
MaxInternationalClubs == 2
MaxOtherDonors == 1

HostPool ==
    { Club(NAME_HOST_CLUB, 1000000, 0, 500000),
      Club(NAME_DISTRICT, 0, 200000, 0),
      Club(NAME_ACME_ROTARY_CLUB, 25000000, 0, 10) }

InternationalPool ==
    { Club(NAME_PARTNER_CLUB, 200000, 0, 300000),
      Club(NAME_DISTRICT, 100000, 200000, 0) }

DonorPool ==
    { Donor(NAME_ACME_FOUNDATION, 10, 10),
      Donor(NAME_ACME_ROTARY_CLUB, 110, 25000) }

GiftPool == { FZero, Cents(40000) }

CalcInit ==
    /\ FormInit
    /\ NoReport
    /\ host_clubs \in SeqUpTo(HostPool, MaxHostClubs)
    /\ international_clubs \in SeqUpTo(InternationalPool, MaxInternationalClubs)
    /\ other_donors \in SeqUpTo(DonorPool, MaxOtherDonors)
    /\ endowed_gift_amount \in GiftPool
    /\ results = NoResults
    /\ funding_warnings = <<>>
    /\ donor_warnings = <<>>
    /\ pc = "input"

\* results = calculate_totals(host_clubs, international_clubs, other_donors, endowed_gift_amount)
Calculate ==
    /\ pc = "input"
    /\ results' = calculate_totals(host_clubs, international_clubs, other_donors,
                                   endowed_gift_amount)
    /\ pc' = "calculated"
    /\ UNCHANGED <<form_vars, report_vars, host_clubs, international_clubs,
                   other_donors, endowed_gift_amount, funding_warnings,
                   donor_warnings>>

\* funding_warnings = validate_funding(results)
\* donor_warnings = validate_other_donors(other_donors)
Validate ==
    /\ pc = "calculated"
    /\ funding_warnings' = validate_funding(results)
    /\ donor_warnings' = validate_other_donors(other_donors)
    /\ pc' = "validated"
    /\ UNCHANGED <<form_vars, report_vars, host_clubs, international_clubs,
                   other_donors, endowed_gift_amount, results>>

CalcNext == Calculate \/ Validate

CalcSpec == CalcInit /\ [][CalcNext]_vars

\* ------------------------------------------------------------------------
\* validate_other_donors on its own, on donor lists of varied names
\* ------------------------------------------------------------------------

MaxDonorNames == 3

DonorNamePool ==
    { Donor(NAME_ACME_FOUNDATION, 100000, 0),
      Donor(NAME_ACME_CORPORATION_UPPER, 0, 100000),
      Donor(NAME_ACME_ROTARY_CLUB, 100000, 0),
      Donor(NAME_FOUNDATION_CORPORATION, 100000, 100000),
      Donor(NAME_FOUND_CORP, 0, 100000) }

DonorInit ==
    /\ FormInit
    /\ NoReport
    /\ host_clubs = <<>>
    /\ international_clubs = <<>>
    /\ other_donors \in SeqUpTo(DonorNamePool, MaxDonorNames)
    /\ endowed_gift_amount = FZero
    /\ results = NoResults
    /\ funding_warnings = <<>>
    /\ donor_warnings = <<>>
    /\ pc = "input"

\* donor_warnings = validate_other_donors(other_donors)
ValidateDonors ==
    /\ pc = "input"
    /\ donor_warnings' = validate_other_donors(other_donors)
    /\ pc' = "validated"
    /\ UNCHANGED <<form_vars, report_vars, host_clubs, international_clubs,
                   other_donors, endowed_gift_amount, results, funding_warnings>>

DonorNext == ValidateDonors

DonorSpec == DonorInit /\ [][DonorNext]_vars

\* ------------------------------------------------------------------------
\* main: the form.  An action is one interaction of the user and the run
\* of the script that follows it.
\* ------------------------------------------------------------------------

MaxFormRows == 4

ApplicationNumberPool == { <<>>, TEXT_GG2024 }
ProjectCountryPool == { <<>>, TEXT_KENYA }
\* What the user types into a row: a name or none, amounts or none
ClubRowPool ==
    { Club(name, a[1], a[2], a[3]) :
        name \in { <<>>, NAME_HOST_CLUB },
        a \in { <<0, 0, 0>>, <<1000000, 0, 500000>> } }

DonorRowPool ==
    { Donor(name, a[1], a[2]) :
        name \in { <<>>, NAME_ACME_FOUNDATION },
        a \in { <<0, 0>>, <<0, 25000>> } }

FormRows == host_club_count + international_club_count + other_donor_count

\* The script builds its lists from the rows it draws
BuildLists ==
    /\ host_clubs' = included_clubs(host_rows')
    /\ international_clubs' = included_clubs(international_rows')
    /\ other_donors' = included_donors(other_rows')

\* uploaded_file = st.file_uploader(...); if uploaded_file is not None: ...
\* Every run comes to the uploader after the section and Save buttons.
\* With a file in it, line 380 assigns st.session_state.application_number
\* after the widget of that key was drawn (line 269) in the same run:
\* Streamlit raises StreamlitAPIException there, the counts of lines
\* 383-385 are not assigned, and the run ends before the "Calculate and
\* Generate PDF" button of line 388 is drawn.  With no file the run goes on
\* to that button and ends as `shown`.
RunEnds(shown) ==
    pc' = IF uploaded_file' # NoUpload THEN "load_exception" ELSE shown

\* A run in which neither "Save Project Data" nor "Calculate and Generate
\* PDF" is pressed shows the form
ShowForm ==
    /\ BuildLists
    /\ results' = NoResults
    /\ funding_warnings' = <<>>
    /\ donor_warnings' = <<>>
    /\ error' = NoError
    /\ pdf' = NoPdf
    /\ summary' = NoSummary
    /\ written_files' = NoFiles
    /\ RunEnds("form")

Init ==
    /\ FormInit
    /\ NoReport
    /\ endowed_gift_amount = FZero
    /\ host_clubs = <<>>
    /\ international_clubs = <<>>
    /\ other_donors = <<>>
    /\ results = NoResults
    /\ funding_warnings = <<>>
    /\ donor_warnings = <<>>
    /\ pc = "form"

EditApplicationNumber ==
    /\ \E text \in ApplicationNumberPool : application_number' = text
    /\ UNCHANGED <<host_club_count, international_club_count, other_donor_count,
                   project_country, host_rows, international_rows, other_rows,
                   endowed_gift_amount>>
    /\ UNCHANGED uploaded_file
    /\ ShowForm

EditProjectCountry ==
    /\ \E text \in ProjectCountryPool : project_country' = text
    /\ UNCHANGED <<host_club_count, international_club_count, other_donor_count,
                   application_number, host_rows, international_rows, other_rows,
                   endowed_gift_amount>>
    /\ UNCHANGED uploaded_file
    /\ ShowForm

EditHostRow ==
    /\ \E i \in 1 .. host_club_count, row \in ClubRowPool :
          host_rows' = [host_rows EXCEPT ![i] = row]
    /\ UNCHANGED <<host_club_count, international_club_count, other_donor_count,
                   application_number, project_country, international_rows,
                   other_rows, endowed_gift_amount>>
    /\ UNCHANGED uploaded_file
    /\ ShowForm

EditInternationalRow ==
    /\ \E i \in 1 .. international_club_count, row \in ClubRowPool :
          international_rows' = [international_rows EXCEPT ![i] = row]
    /\ UNCHANGED <<host_club_count, international_club_count, other_donor_count,
                   application_number, project_country, host_rows, other_rows,
                   endowed_gift_amount>>
    /\ UNCHANGED uploaded_file
    /\ ShowForm

EditOtherDonorRow ==
    /\ \E i \in 1 .. other_donor_count, row \in DonorRowPool :
          other_rows' = [other_rows EXCEPT ![i] = row]
    /\ UNCHANGED <<host_club_count, international_club_count, other_donor_count,
                   application_number, project_country, host_rows,
                   international_rows, endowed_gift_amount>>
    /\ UNCHANGED uploaded_file
    /\ ShowForm

EditEndowedGift ==
    /\ \E amount \in GiftPool : endowed_gift_amount' = amount
    /\ UNCHANGED form_vars
    /\ ShowForm

\* if st.button("Add Host Club"): host_club_count += 1; st.rerun()
AddHostClub ==
    /\ FormRows < MaxFormRows
    /\ host_club_count' = host_club_count + 1
    /\ host_rows' = Append(host_rows, BlankClubRow)
    /\ UNCHANGED <<international_club_count, other_donor_count, application_number,
                   project_country, international_rows, other_rows,
                   endowed_gift_amount>>
    /\ UNCHANGED uploaded_file
    /\ ShowForm

\* "Remove Host Club" without the floor of line 294
RemoveHostClub_without_floor ==
    /\ host_club_count' = host_club_count - 1
    /\ host_rows' = SubSeq(host_rows, 1, host_club_count - 1)
    /\ UNCHANGED <<international_club_count, other_donor_count, application_number,
                   project_country, international_rows, other_rows,
                   endowed_gift_amount>>
    /\ UNCHANGED uploaded_file
    /\ ShowForm

\* if st.button("Remove Host Club") and host_club_count > 1: host_club_count -= 1; st.rerun()
RemoveHostClub ==
    /\ IF host_club_count > 1
       THEN /\ host_club_count' = host_club_count - 1
            /\ host_rows' = SubSeq(host_rows, 1, host_club_count - 1)
       ELSE UNCHANGED <<host_club_count, host_rows>>
    /\ UNCHANGED <<international_club_count, other_donor_count, application_number,
                   project_country, international_rows, other_rows,
                   endowed_gift_amount>>
    /\ UNCHANGED uploaded_file
    /\ ShowForm

AddInternationalClub ==
    /\ FormRows < MaxFormRows
    /\ international_club_count' = international_club_count + 1
    /\ international_rows' = Append(international_rows, BlankClubRow)
    /\ UNCHANGED <<host_club_count, other_donor_count, application_number,
                   project_country, host_rows, other_rows, endowed_gift_amount>>
    /\ UNCHANGED uploaded_file
    /\ ShowForm

RemoveInternationalClub ==
    /\ IF international_club_count > 1
       THEN /\ international_club_count' = international_club_count - 1
            /\ international_rows' =
                   SubSeq(international_rows, 1, international_club_count - 1)
       ELSE UNCHANGED <<international_club_count, international_rows>>
    /\ UNCHANGED <<host_club_count, other_donor_count, application_number,
                   project_country, host_rows, other_rows, endowed_gift_amount>>
    /\ UNCHANGED uploaded_file
    /\ ShowForm

AddOtherDonor ==
    /\ FormRows < MaxFormRows
    /\ other_donor_count' = other_donor_count + 1
    /\ other_rows' = Append(other_rows, BlankDonorRow)
    /\ UNCHANGED <<host_club_count, international_club_count, application_number,
                   project_country, host_rows, international_rows,
                   endowed_gift_amount>>
    /\ UNCHANGED uploaded_file
    /\ ShowForm

RemoveOtherDonor ==
    /\ IF other_donor_count > 1
       THEN /\ other_donor_count' = other_donor_count - 1
            /\ other_rows' = SubSeq(other_rows, 1, other_donor_count - 1)
       ELSE UNCHANGED <<other_donor_count, other_rows>>
    /\ UNCHANGED <<host_club_count, international_club_count, application_number,
                   project_country, host_rows, international_rows,
                   endowed_gift_amount>>
    /\ UNCHANGED uploaded_file
    /\ ShowForm

\* if st.button("Calculate and Generate PDF"): ...
\* The button is on the screen only if the last run reached line 388, that
\* is with no file in the uploader.
CalculateAndGeneratePDF ==
    /\ uploaded_file = NoUpload
    /\ UNCHANGED <<form_vars, endowed_gift_amount>>
    /\ BuildLists
    /\ written_files' = NoFiles
    /\ IF details_missing(application_number, project_country)
       THEN /\ error' = ERROR_MISSING_DETAILS
            /\ results' = NoResults
            /\ funding_warnings' = <<>>
            /\ donor_warnings' = <<>>
            /\ pdf' = NoPdf
            /\ summary' = NoSummary
            /\ pc' = "error"
       ELSE IF no_club(host_clubs', international_clubs')
       THEN /\ error' = ERROR_NO_CLUB
            /\ results' = NoResults
            /\ funding_warnings' = <<>>
            /\ donor_warnings' = <<>>
            /\ pdf' = NoPdf
            /\ summary' = NoSummary
            /\ pc' = "error"
       ELSE /\ error' = NoError
            /\ results' = calculate_totals(host_clubs', international_clubs',
                                           other_donors', endowed_gift_amount)
            /\ funding_warnings' = validate_funding(results')
            /\ donor_warnings' = validate_other_donors(other_donors')
            /\ pdf' = generate_pdf(
                        [host_clubs |-> host_clubs',
                         international_clubs |-> international_clubs',
                         other_donors |-> other_donors',
                         warnings |-> funding_warnings' \o donor_warnings']
                          @@ results',
                        [application_number |-> application_number,
                         project_country |-> project_country])
            /\ IF pdf' = ZeroDivisionError
               THEN summary' = NoSummary /\ pc' = "exception"
               ELSE summary' = summary_data(results') /\ pc' = "report"

\* Files a user may upload: the one the form writes when only the
\* application number is filled in, and one with two host clubs and an
\* international club
ProjectFilePool ==
    { project_data_of(TEXT_GG2024, <<>>, <<>>, <<>>, <<>>, FZero),
      project_data_of(TEXT_GG2024, TEXT_KENYA,
                      <<Club(NAME_HOST_CLUB, 1000000, 0, 500000),
                        Club(NAME_DISTRICT, 0, 200000, 0)>>,
                      <<Club(NAME_PARTNER_CLUB, 200000, 0, 300000)>>,
                      <<>>, FZero) }

\* if st.button("Save Project Data"): ...
\* The button comes before the uploader: the file is written, or the error
\* shown, and then the run goes on to line 375.
SaveProjectData ==
    /\ UNCHANGED <<form_vars, endowed_gift_amount>>
    /\ BuildLists
    /\ results' = NoResults
    /\ funding_warnings' = <<>>
    /\ donor_warnings' = <<>>
    /\ pdf' = NoPdf
    /\ summary' = NoSummary
    /\ IF application_number = <<>>
       THEN /\ error' = ERROR_SAVE_WITHOUT_APPLICATION_NUMBER
            /\ written_files' = NoFiles
            /\ RunEnds("save_error")
       ELSE /\ error' = NoError
            /\ written_files' =
                   save_project_data(
                       NoFiles,
                       project_data_of(application_number, project_country,
                                       host_clubs', international_clubs',
                                       other_donors', endowed_gift_amount),
                       project_file_name(application_number))
            /\ RunEnds("saved")

\* The user puts a file into "Load Project Data"; the run that follows
\* ends at line 380, and so does every later run while the file is there
LoadProjectData ==
    /\ \E project_data \in ProjectFilePool : uploaded_file' = project_data
    /\ UNCHANGED <<host_club_count, international_club_count, other_donor_count,
                   application_number, project_country, host_rows,
                   international_rows, other_rows, endowed_gift_amount>>
    /\ ShowForm

\* The user takes the file out of the uploader: uploaded_file is None and
\* the run reaches the end of the script
ClearUploadedFile ==
    /\ uploaded_file # NoUpload
    /\ uploaded_file' = NoUpload
    /\ UNCHANGED <<host_club_count, international_club_count, other_donor_count,
                   application_number, project_country, host_rows,
                   international_rows, other_rows, endowed_gift_amount>>
    /\ ShowForm

Next ==
    \/ EditApplicationNumber
    \/ EditProjectCountry
    \/ EditHostRow
    \/ EditInternationalRow
    \/ EditOtherDonorRow
    \/ EditEndowedGift
    \/ AddHostClub
    \/ RemoveHostClub
    \/ AddInternationalClub
    \/ RemoveInternationalClub
    \/ AddOtherDonor
    \/ RemoveOtherDonor
    \/ CalculateAndGeneratePDF
    \/ SaveProjectData
    \/ LoadProjectData
    \/ ClearUploadedFile

Spec == Init /\ [][Next]_vars

\* ------------------------------------------------------------------------
\* Properties
\* ------------------------------------------------------------------------

Calculated == results # NoResults

ResultFields ==
    { "total_host_ddf", "total_host_cash_direct", "total_host_cash_trf",
      "total_international_ddf", "total_international_cash_direct",
      "total_international_cash_trf", "total_ddf", "total_cash_direct",
      "total_cash_trf", "project_cash_trf", "fee", "world_fund_match",
      "total_other_donors_direct", "total_other_donors_trf", "endowed_gift",
      "total_funding", "international_contribution_percentage",
      "total_contributions" }

\* C1: world_fund_match is total_ddf * 0.8 when that product is at most
\* 400000 and 400000 otherwise, so it exceeds neither 400000 nor
\* 0.8 * total_ddf; total_ddf is the host clubs' ddf plus the international
\* clubs' ddf.
C1_WorldFundMatchCapped ==
    Calculated =>
        LET total_ddf == fadd(sum(host_clubs, "ddf"), sum(international_clubs, "ddf"))
            product == fmul(total_ddf, Cents(80))
        IN  /\ results.total_ddf = total_ddf
            /\ results.world_fund_match =
                   IF flt(FInt(400000), product) THEN FInt(400000) ELSE product
            /\ ~flt(FInt(400000), results.world_fund_match)
            /\ ~flt(fmul(Cents(80), total_ddf), results.world_fund_match)

\* A calculation whose total_ddf * 0.8 is above 400000, capped
C1_Witness ==
    /\ Calculated
    /\ flt(FInt(400000), fmul(results.total_ddf, Cents(80)))
    /\ results.world_fund_match = FInt(400000)

\* C2: total_funding is total_ddf + total_cash_direct + total_cash_trf +
\* world_fund_match + total_other_donors_direct + total_other_donors_trf +
\* endowed_gift, the cash through TRF at its face value.
C2_TotalFundingFormula ==
    Calculated =>
        /\ results.total_cash_trf =
               fadd(sum(host_clubs, "cash_trf"), sum(international_clubs, "cash_trf"))
        /\ results.endowed_gift = endowed_gift_amount
        /\ results.total_funding =
               fadd(fadd(fadd(fadd(fadd(fadd(results.total_ddf,
                                             results.total_cash_direct),
                                        results.total_cash_trf),
                                   results.world_fund_match),
                              results.total_other_donors_direct),
                         results.total_other_donors_trf),
                    results.endowed_gift)

\* A calculation with a fee, donors' money and a gift
C2_Witness ==
    /\ Calculated
    /\ flt(FZero, results.fee)
    /\ flt(FZero, results.total_other_donors_trf)
    /\ flt(FZero, results.endowed_gift)

\* C3: fee is total_cash_trf * 0.05, total_cash_trf the host clubs' plus the
\* international clubs' cash_trf; the other donors' amount_trf and the
\* endowed gift add nothing to it.
C3_FeeIsFivePercentOfCashTrf ==
    Calculated =>
        results.fee =
            fmul(fadd(sum(host_clubs, "cash_trf"), sum(international_clubs, "cash_trf")),
                 Cents(5))

\* A calculation with cash through TRF from host and international clubs,
\* from another donor, and a gift
C3_Witness ==
    /\ Calculated
    /\ flt(FZero, results.total_host_cash_trf)
    /\ flt(FZero, results.total_international_cash_trf)
    /\ flt(FZero, results.total_other_donors_trf)
    /\ flt(FZero, results.endowed_gift)
    /\ flt(FZero, results.fee)

\* C4: international_contribution_percentage is the international clubs'
\* ddf + cash_direct + cash_trf over total_contributions = total_ddf +
\* total_cash_direct + total_cash_trf, and 0 when total_contributions is 0.
C4_InternationalShare ==
    Calculated =>
        LET international ==
                fadd(fadd(sum(international_clubs, "ddf"),
                          sum(international_clubs, "cash_direct")),
                     sum(international_clubs, "cash_trf"))
            total_contributions ==
                fadd(fadd(fadd(sum(host_clubs, "ddf"), sum(international_clubs, "ddf")),
                          fadd(sum(host_clubs, "cash_direct"),
                               sum(international_clubs, "cash_direct"))),
                     fadd(sum(host_clubs, "cash_trf"),
                          sum(international_clubs, "cash_trf")))
        IN  /\ results.total_contributions = total_contributions
            /\ results.international_contribution_percentage =
                   IF total_contributions = FZero THEN FZero
                   ELSE fdiv(international, total_contributions)

\* A calculation with no club contribution but money from a donor or a gift
C4_Witness ==
    /\ Calculated
    /\ results.total_contributions = FZero
    /\ flt(FZero, results.total_funding)
    /\ results.international_contribution_percentage = FZero

\* C5: validate_funding returns 0, 1 or 2 warnings: the international-share
\* warning exactly when the percentage is below 0.15, the minimum-funding
\* warning exactly when total_funding is below 30000, the first before the
\* second.
C5_FundingWarnings ==
    (Calculated /\ pc \in {"validated", "report", "exception"}) =>
        LET share_low == flt(results.international_contribution_percentage, Cents(15))
            below_minimum == flt(results.total_funding, FInt(30000))
            has(w) == \E i \in 1 .. Len(funding_warnings) : funding_warnings[i] = w
        IN  /\ Len(funding_warnings) =
                   (IF share_low THEN 1 ELSE 0) + (IF below_minimum THEN 1 ELSE 0)
            /\ has(INTERNATIONAL_SHARE_WARNING) <=> share_low
            /\ has(MINIMUM_FUNDING_WARNING) <=> below_minimum
            /\ (share_low /\ below_minimum) =>
                   funding_warnings = <<INTERNATIONAL_SHARE_WARNING,
                                        MINIMUM_FUNDING_WARNING>>

\* Both warnings returned
C5_Witness ==
    /\ pc = "validated"
    /\ Len(funding_warnings) = 2

\* c, lower-cased
FoldCase(c) == IF c \in 65 .. 90 THEN c + 32 ELSE c

\* The name holds the word, whatever the case of the name's letters
NameHolds(name, word) ==
    \E i \in 1 .. Len(name) :
        /\ i + Len(word) - 1 <= Len(name)
        /\ \A j \in 1 .. Len(word) : FoldCase(name[i + j - 1]) = word[j]

NamesFoundationOrCorporation(donor) ==
    NameHolds(donor.name, FOUNDATION) \/ NameHolds(donor.name, CORPORATION)

\* C6: validate_other_donors returns one warning for each donor whose name
\* holds "foundation" or "corporation" in any case, none for another donor,
\* in the donors' order, each naming its donor.
C6_DonorWarnings ==
    pc \in {"validated", "report", "exception"} =>
        LET flagged == SelectSeq(other_donors, NamesFoundationOrCorporation)
        IN  /\ Len(donor_warnings) = Len(flagged)
            /\ \A i \in 1 .. Len(flagged) :
                   donor_warnings[i] =
                       DONOR_WARNING_PREFIX \o flagged[i].name \o DONOR_WARNING_SUFFIX

\* Three donors: one matching both words, one in capitals, one not matching
C6_Witness ==
    /\ pc = "validated"
    /\ Len(other_donors) = 3
    /\ other_donors[1].name = NAME_FOUNDATION_CORPORATION
    /\ other_donors[2].name = NAME_ACME_ROTARY_CLUB
    /\ other_donors[3].name = NAME_ACME_CORPORATION_UPPER
    /\ Len(donor_warnings) = 2

NoInput ==
    /\ host_clubs = <<>>
    /\ international_clubs = <<>>
    /\ other_donors = <<>>
    /\ endowed_gift_amount = FZero

\* C7: calculate_totals of empty lists and a gift of 0 returns every field,
\* each 0.
C7_EmptyInputsGiveZero ==
    (Calculated /\ NoInput) =>
        /\ DOMAIN results = ResultFields
        /\ \A f \in ResultFields : results[f] = FZero

\* calculate_totals has returned for empty lists and a gift of 0
C7_Witness ==
    /\ Calculated
    /\ NoInput
    /\ pc = "calculated"

\* The lists that hold the elements of s in another order (or the same)
Reorderings(s) ==
    { [i \in 1 .. Len(s) |-> s[p[i]]] :
        p \in { q \in [1 .. Len(s) -> 1 .. Len(s)] :
                  \A i, j \in 1 .. Len(s) : q[i] = q[j] => i = j } }

\* C8: permuting the host-club list, the international-club list or the
\* other-donor list changes no field of calculate_totals' result.
C8_OrderIndependent ==
    Calculated =>
        \A h \in Reorderings(host_clubs), i \in Reorderings(international_clubs),
           d \in Reorderings(other_donors) :
            calculate_totals(h, i, d, endowed_gift_amount) = results

Scenario ==
    /\ Len(host_clubs) = 1
    /\ host_clubs[1].ddf = FInt(10000)
    /\ host_clubs[1].cash_direct = FZero
    /\ host_clubs[1].cash_trf = FInt(5000)
    /\ Len(international_clubs) = 1
    /\ international_clubs[1].ddf = FInt(2000)
    /\ international_clubs[1].cash_direct = FZero
    /\ international_clubs[1].cash_trf = FInt(3000)
    /\ other_donors = <<>>
    /\ endowed_gift_amount = FZero

\* C9: for one host club {ddf 10000, cash_direct 0, cash_trf 5000}, one
\* international club {ddf 2000, cash_direct 0, cash_trf 3000}, no other
\* donor and no gift: total_ddf 12000, total_cash_trf 8000, fee 400,
\* world_fund_match 9600, total_contributions 20000, percentage 0.25,
\* total_funding 29600, and validate_funding returns the minimum-funding
\* warning alone.
C9_Scenario ==
    (Scenario /\ pc = "validated") =>
        /\ results.total_ddf = FInt(12000)
        /\ results.total_cash_trf = FInt(8000)
        /\ results.fee = FInt(400)
        /\ results.world_fund_match = FInt(9600)
        /\ results.total_contributions = FInt(20000)
        /\ results.international_contribution_percentage = Cents(25)
        /\ results.total_funding = FInt(29600)
        /\ funding_warnings = <<MINIMUM_FUNDING_WARNING>>

\* The scenario, calculated and validated
C9_Witness ==
    /\ Scenario
    /\ pc = "validated"
    /\ Calculated

\* "Calculate and Generate PDF" was pressed in the run that drew this screen
Pressed == pc \in {"error", "report", "exception"}

\* A club row the form includes: a name and an amount above 0
RowIncluded(row) ==
    /\ Len(row.name) > 0
    /\ \E f \in {"ddf", "cash_direct", "cash_trf"} : flt(FZero, row[f])

ChecksPass ==
    /\ Len(application_number) > 0
    /\ Len(project_country) > 0
    /\ \/ \E i \in 1 .. Len(host_rows) : RowIncluded(host_rows[i])
       \/ \E i \in 1 .. Len(international_rows) : RowIncluded(international_rows[i])

\* C10: on "Calculate and Generate PDF", calculate_totals, the validators
\* and the report run only if the application number and the project
\* country are not empty and a host or international club is included;
\* otherwise an error is reported and none of them runs.
C10_CoreOnlyAfterChecks ==
    /\ (\/ Calculated
        \/ funding_warnings # <<>>
        \/ donor_warnings # <<>>
        \/ pdf # NoPdf
        \/ summary # NoSummary) => ChecksPass
    /\ pc \in {"report", "exception"} => (ChecksPass /\ Calculated /\ error = NoError)
    /\ pc = "error" =>
          /\ ~ChecksPass
          /\ error # NoError
          /\ ~Calculated
          /\ pdf = NoPdf
    /\ (Pressed /\ ~ChecksPass) => pc = "error"

\* The button pressed with both details given, a named row, and no amount
C10_Witness ==
    /\ pc = "error"
    /\ error = ERROR_NO_CLUB
    /\ application_number # <<>>
    /\ project_country # <<>>
    /\ \E i \in 1 .. Len(host_rows) : host_rows[i].name # <<>>
    /\ ~Calculated

\* C11: once "Calculate and Generate PDF" has passed the checks of the
\* application number, the country and the clubs, the PDF report and the
\* summary are produced whatever the number of warnings; the warnings are
\* attached to the report and stop nothing.
C11_ReportDespiteWarnings ==
    (Pressed /\ ChecksPass) =>
        /\ pc = "report"
        /\ error = NoError
        /\ pdf # NoPdf
        /\ pdf # ZeroDivisionError
        /\ pdf.warnings = funding_warnings \o donor_warnings
        /\ summary = summary_data(results)
        /\ summary # NoSummary

\* A report produced with both funding warnings and a donor warning
C11_Witness ==
    /\ pc = "report"
    /\ Len(funding_warnings) = 2
    /\ Len(donor_warnings) = 1
    /\ Len(pdf.warnings) = 3
    /\ summary # NoSummary

\* The record has a name, no amount below 0 and an amount above 0
WellFormedClub(club) ==
    /\ club.name # <<>>
    /\ \A f \in {"ddf", "cash_direct", "cash_trf"} : ~flt(club[f], FZero)
    /\ \E f \in {"ddf", "cash_direct", "cash_trf"} : flt(FZero, club[f])

\* C12: whenever main reaches generate_pdf, total_funding is above 0 and
\* the funding breakdown's divisions by it do not fail: a club is included
\* only with a name and an amount above 0, no amount is below 0, and the
\* calculation needs an included club.
C12_TotalFundingPositive ==
    /\ pc # "exception"
    /\ pdf # ZeroDivisionError
    /\ pdf # NoPdf =>
          /\ host_clubs # <<>> \/ international_clubs # <<>>
          /\ \A i \in 1 .. Len(host_clubs) : WellFormedClub(host_clubs[i])
          /\ \A i \in 1 .. Len(international_clubs) :
                 WellFormedClub(international_clubs[i])
          /\ flt(FZero, results.total_funding)
          /\ Len(pdf.percentages) = 5

\* generate_pdf reached with a named row without amounts left out of the
\* lists
C12_Witness ==
    /\ pdf # NoPdf
    /\ pc = "report"
    /\ flt(FZero, results.total_funding)
    /\ \E i \in 1 .. Len(host_rows) :
          host_rows[i].name # <<>> /\ ~club_row_included(host_rows[i])

\* C13: after any sequence of Add, Remove and Load actions from the
\* initial session state, host_club_count, international_club_count and
\* other_donor_count are each at least 1.
C13_CountsAtLeastOne ==
    /\ host_club_count >= 1
    /\ international_club_count >= 1
    /\ other_donor_count >= 1

\* A file whose lists are empty is in the uploader, after an Add and a
\* Remove: the run ended at line 380 and the counts are the form's own
C13_Witness ==
    /\ pc = "load_exception"
    /\ uploaded_file # NoUpload
    /\ uploaded_file.host_clubs = <<>>
    /\ uploaded_file.international_clubs = <<>>
    /\ uploaded_file.other_donors = <<>>
    /\ host_club_count = 1
    /\ international_club_count = 2
    /\ other_donor_count = 1

\* The five sizes added up, the first to the last
SizesTotal(sizes) ==
    fadd(fadd(fadd(fadd(sizes[1], sizes[2]), sizes[3]), sizes[4]), sizes[5])

\* C14: for every result of calculate_totals the five chart categories
\* (host subtotal, international subtotal, world_fund_match, other donors,
\* endowed_gift) sum exactly to total_funding.
C14_ChartPartitionsTotal ==
    Calculated => SizesTotal(pie_chart_sizes(results)) = results.total_funding

=============================================================================
